---- MODULE Spec2Model ----
(***************************************************************************)
(* binance_data_scraper.py: the command-line script that reads a timeframe  *)
(* and a candle limit, asks the exchange for its symbols, fetches the       *)
(* candles of every USDT symbol that is trading with one asyncio task per   *)
(* symbol, concatenates the per-symbol frames and writes one CSV file.      *)
(*                                                                         *)
(* Strings the program inspects character by character (the symbol names,   *)
(* the text given for --limit) are sequences of one-character strings.      *)
(* A Python dict is a record: a missing key is a field not in its DOMAIN.   *)
(* An operation that may raise returns Ok(value) or Raise(exception).       *)
(***************************************************************************)
EXTENDS Integers, Sequences, FiniteSets, TLC

\* ---------------------------------------------------------------- bounds

\* The longest "symbols" array the metadata endpoint answers with.
MaxCatalog == 2

\* The most candles the candle endpoint answers with for one symbol.
MaxRows == 2

\* ------------------------------------------------------- general helpers

Ok(v) == [ok |-> TRUE, val |-> v]

Raise(e) == [ok |-> FALSE, exc |-> e]

Range(s) == {s[i] : i \in 1..Len(s)}

\* The sequences over S of length at most n.
SeqsUpTo(S, n) == UNION {[1..k -> S] : k \in 0..n}

\* The first position of x in s (x is in s).
IndexOf(s, x) == CHOOSE i \in 1..Len(s) : s[i] = x /\ \A j \in 1..(i - 1) : s[j] # x

\* ------------------------------------------------------------- the inputs

BTCUSDT == <<"B", "T", "C", "U", "S", "D", "T">>

ETHUSDT == <<"E", "T", "H", "U", "S", "D", "T">>

USDTTRY == <<"U", "S", "D", "T", "T", "R", "Y">>

BNB == <<"B", "N", "B">>

\* The identifiers the exchange lists: two quoted in USDT, one that holds
\* USDT as its base asset, one shorter than the suffix.
Identifiers == {BTCUSDT, ETHUSDT, USDTTRY, BNB}

\* The entries of the metadata response's "symbols" array. Either key may be
\* missing from a response that departs from the exchange's schema.
Entries ==
    {[symbol |-> BTCUSDT, status |-> "TRADING"],
     [symbol |-> BTCUSDT, status |-> "BREAK"],
     [symbol |-> BTCUSDT],
     [symbol |-> ETHUSDT, status |-> "TRADING"],
     [symbol |-> USDTTRY, status |-> "TRADING"],
     [symbol |-> USDTTRY],
     [symbol |-> BNB, status |-> "TRADING"],
     [status |-> "TRADING"]}

\* The exchange lists an identifier once.
DistinctSymbols(c) ==
    \A i, j \in 1..Len(c) :
        (i # j /\ "symbol" \in DOMAIN c[i] /\ "symbol" \in DOMAIN c[j])
            => c[i].symbol # c[j].symbol

Catalogs == {c \in SeqsUpTo(Entries, MaxCatalog) : DistinctSymbols(c)}

\* What session.get(symbols_url) may bring: no usable answer (the transport
\* fails, or the body is not JSON), a JSON object without "symbols" (the
\* exchange's error object), or a JSON object with a "symbols" array.
MetaResponses ==
    {[kind |-> "error"]}
        \cup {[kind |-> "json", body |-> [code |-> "-1003", msg |-> "Too many requests"]]}
        \cup {[kind |-> "json", body |-> [symbols |-> c]] : c \in Catalogs}

\* The k-th candle of a symbol: the twelve positional fields of the candle
\* endpoint, times in milliseconds since the epoch.
Kline(k) ==
    <<k * 60000, "1.0", "2.0", "0.5", "1.5", "10.0", k * 60000 + 59999,
      "15.0", 7, "4.0", "6.0", "0">>

\* A candle that lacks its last field.
ShortKline == SubSeq(Kline(1), 1, 11)

Series(n) == [k \in 1..n |-> Kline(k)]

\* What session.get(endpoint) may bring for one symbol: no usable answer, the
\* exchange's error object (a JSON object, sent with a 4xx status that the
\* session does not raise for), or a JSON array of candles.
CandleResponses ==
    {[kind |-> "error"]}
        \cup {[kind |-> "json", type |-> "object",
               object |-> [code |-> "-1120", msg |-> "Invalid interval."]]}
        \cup {[kind |-> "json", type |-> "array", array |-> Series(n)] : n \in 0..MaxRows}
        \cup {[kind |-> "json", type |-> "array", array |-> <<ShortKline>>]}

\* The response a task holds before its request is answered.
NoResponse == [kind |-> "none"]

\* The texts a user gives for the limit, on the command line or at the prompt.
LimitTexts == {<<"-", "1">>, <<"1">>, <<"1", "0", "0", "1">>, <<"x">>}

\* The texts a user gives for the timeframe.
TfTexts == {"1m", "7x"}

\* What may lie at the output path before the run.
Absent == [exists |-> FALSE]

OldFile == [exists |-> TRUE, header |-> <<"stale">>, lines |-> <<>>]

\* ----------------------------------------------------- documented domains

\* The timeframes the class docstring and the --tf help text allow.
AllowedTimeframes == {"1m", "3m", "5m", "15m", "30m", "1h", "2h", "4h", "8h", "1d"}

\* The limits the class docstring and the --limit help text allow.
MinLimit == 1

MaxLimit == 1000

\* ------------------------------------------------------ Python built-ins

Digits == <<"0", "1", "2", "3", "4", "5", "6", "7", "8", "9">>

DigitValue(c) == IndexOf(Digits, c) - 1

RECURSIVE DecimalValue(_)
DecimalValue(s) ==
    IF s = <<>> THEN 0
    ELSE DecimalValue(SubSeq(s, 1, Len(s) - 1)) * 10 + DigitValue(s[Len(s)])

\* int(text), of the texts without blanks or underscores: an optional sign and
\* at least one decimal digit, anything else raises ValueError.
int(text) ==
    LET signed == text # <<>> /\ text[1] \in {"-", "+"}
        digits == IF signed THEN Tail(text) ELSE text
    IN  IF digits = <<>> \/ \E i \in 1..Len(digits) : digits[i] \notin Range(Digits)
        THEN Raise("ValueError")
        ELSE IF signed /\ text[1] = "-"
             THEN Ok(0 - DecimalValue(digits))
             ELSE Ok(DecimalValue(digits))

\* The test at the wrong end of the string: str.startswith(suffix).
startswith(s, suffix) ==
    /\ Len(s) >= Len(suffix)
    /\ SubSeq(s, 1, Len(suffix)) = suffix

\* str.endswith(suffix)
endswith(s, suffix) ==
    /\ Len(s) >= Len(suffix)
    /\ SubSeq(s, Len(s) - Len(suffix) + 1, Len(s)) = suffix

USDT == <<"U", "S", "D", "T">>

\* The list comprehension that resolves symbols_list. Python evaluates the
\* condition entry by entry, `and` left to right: symbol['symbol'] raises
\* KeyError on an entry without that key, symbol['status'] is read, and raises
\* on an entry without it, only when the identifier ends with 'USDT'.
RECURSIVE SymbolsComprehension(_)
SymbolsComprehension(symbols_data) ==
    IF symbols_data = <<>> THEN Ok(<<>>)
    ELSE LET symbol == Head(symbols_data)
             rest == SymbolsComprehension(Tail(symbols_data))
         IN  IF "symbol" \notin DOMAIN symbol THEN Raise("KeyError")
             ELSE IF ~endswith(symbol.symbol, USDT) THEN rest
             ELSE IF "status" \notin DOMAIN symbol THEN Raise("KeyError")
             ELSE IF ~rest.ok THEN rest
             ELSE IF symbol.status = "TRADING" THEN Ok(<<symbol.symbol>> \o rest.val)
             ELSE rest

\* ------------------------------------------------------------- DataFrames
\* A frame is its column labels, its rows (each aligned with the columns), the
\* name of its index ("" for an unnamed one) and the index label of each row.

KlineColumns ==
    <<"Open time", "Open", "High", "Low", "Close", "Volume", "Close time",
      "Quote asset volume", "Number of trades", "Taker buy base asset volume",
      "Taker buy quote asset volume", "Ignore">>

\* A drop list that forgets the last auxiliary label.
DroppedColumnsButIgnore ==
    <<"Close time", "Quote asset volume", "Number of trades",
      "Taker buy base asset volume", "Taker buy quote asset volume">>

\* The labels scrape() drops before it writes.
DroppedColumns ==
    <<"Close time", "Quote asset volume", "Number of trades",
      "Taker buy base asset volume", "Taker buy quote asset volume", "Ignore">>

RangeIndex(n) == [i \in 1..n |-> i - 1]

\* pd.DataFrame()
EmptyDataFrame == [columns |-> <<>>, rows |-> <<>>, index_name |-> "", index |-> <<>>]

\* pd.DataFrame(response, columns=...): a list of lists gives one row per inner
\* list and raises ValueError when an inner list has not one value per column;
\* a dict of scalars none of whose keys is a column gives the columns and no row.
DataFrame(response, columns) ==
    IF response.type = "object"
    THEN Ok([columns |-> columns, rows |-> <<>>, index_name |-> "", index |-> <<>>])
    ELSE IF \E i \in 1..Len(response.array) : Len(response.array[i]) # Len(columns)
         THEN Raise("ValueError")
         ELSE Ok([columns |-> columns, rows |-> response.array, index_name |-> "",
                  index |-> RangeIndex(Len(response.array))])

\* df[label] = value, a scalar: replaces the column, or appends it as the last.
SetColumn(df, label, value) ==
    IF label \in Range(df.columns)
    THEN [df EXCEPT !.rows =
            [i \in 1..Len(df.rows) |->
                [df.rows[i] EXCEPT ![IndexOf(df.columns, label)] = value]]]
    ELSE [df EXCEPT !.columns = Append(df.columns, label),
                    !.rows = [i \in 1..Len(df.rows) |-> Append(df.rows[i], value)]]

\* The rows of df laid out under the labels `columns`, NaN where df has none.
Reindexed(df, columns) ==
    [i \in 1..Len(df.rows) |->
        [j \in 1..Len(columns) |->
            IF columns[j] \in Range(df.columns)
            THEN df.rows[i][IndexOf(df.columns, columns[j])]
            ELSE "NaN"]]

\* A concatenation that loses what was accumulated: only b is kept.
concat_only_last(a, b) ==
    [columns |-> b.columns, rows |-> b.rows, index_name |-> "",
     index |-> RangeIndex(Len(b.rows))]

\* pd.concat([b, a], ignore_index=True): the new frame put before what was
\* accumulated.
concat_prepend(a, b) ==
    LET columns == a.columns \o SelectSeq(b.columns, LAMBDA c : c \notin Range(a.columns))
        rows == Reindexed(b, columns) \o Reindexed(a, columns)
    IN  [columns |-> columns, rows |-> rows, index_name |-> "",
         index |-> RangeIndex(Len(rows))]

\* pd.concat([a, b], ignore_index=True): a's rows then b's, under a's labels
\* followed by those only b has, renumbered from 0.
concat(a, b) ==
    LET columns == a.columns \o SelectSeq(b.columns, LAMBDA c : c \notin Range(a.columns))
        rows == Reindexed(a, columns) \o Reindexed(b, columns)
    IN  [columns |-> columns, rows |-> rows, index_name |-> "",
         index |-> RangeIndex(Len(rows))]

\* pd.to_datetime(ms, unit='ms'): the instant, as whole seconds since the epoch
\* and the milliseconds within the second.
to_datetime(ms) == [seconds |-> ms \div 1000, millis |-> ms % 1000]

\* df[label] = pd.to_datetime(df[label], unit='ms'); df[label] raises KeyError
\* when the frame has no such column.
ConvertColumn(df, label) ==
    IF label \notin Range(df.columns) THEN Raise("KeyError")
    ELSE LET j == IndexOf(df.columns, label)
         IN  Ok([df EXCEPT !.rows =
                    [i \in 1..Len(df.rows) |->
                        [df.rows[i] EXCEPT ![j] = to_datetime(df.rows[i][j])]]])

\* s without the element at position j.
Without(s, j) == SubSeq(s, 1, j - 1) \o SubSeq(s, j + 1, Len(s))

\* df.set_index(label, inplace=True): the column becomes the index.
set_index(df, label) ==
    IF label \notin Range(df.columns) THEN Raise("KeyError")
    ELSE LET j == IndexOf(df.columns, label)
         IN  Ok([columns |-> Without(df.columns, j),
                 rows |-> [i \in 1..Len(df.rows) |-> Without(df.rows[i], j)],
                 index_name |-> label,
                 index |-> [i \in 1..Len(df.rows) |-> df.rows[i][j]]])

\* df.drop(labels, axis=1, inplace=True): raises KeyError on a label the frame
\* has not, else keeps the other columns in their order.
drop(df, labels) ==
    IF \E k \in 1..Len(labels) : labels[k] \notin Range(df.columns) THEN Raise("KeyError")
    ELSE LET keep == {j \in 1..Len(df.columns) : df.columns[j] \notin Range(labels)}
             Kept(s) == SelectSeq([j \in 1..Len(s) |-> <<j, s[j]>>],
                                  LAMBDA p : p[1] \in keep)
             Values(s) == [k \in 1..Len(Kept(s)) |-> Kept(s)[k][2]]
         IN  Ok([df EXCEPT !.columns = Values(df.columns),
                           !.rows = [i \in 1..Len(df.rows) |-> Values(df.rows[i])]])

\* df.to_csv(path): a header of the index name and the column labels, then one
\* line per row, the index label first.
to_csv(df) ==
    [exists |-> TRUE,
     header |-> <<df.index_name>> \o df.columns,
     lines |-> [i \in 1..Len(df.rows) |-> <<df.index[i]>> \o df.rows[i]]]

\* ------------------------------------------------------------- the state

VARIABLES
    pc,               \* where the script is
    args,             \* the parsed command line: a key only when the option was given
    globals,          \* the module-level names limit and tf, once assigned
    params,           \* scraper.params
    symbols_list,     \* scraper.symbols_list
    historical_data,  \* scraper.historical_data
    session,          \* the aiohttp.ClientSession of scrape(): none, open or closed
    response,         \* scrape()'s local: the metadata response
    requests,         \* every GET issued through the session, in order
    tasks,            \* the futures of get_historical_data, in creation order
    outer,            \* the future asyncio.gather returns
    results,          \* scrape()'s local: what the gather returned
    pbar,             \* the "Async Progressbar": its total and its count
    arrival,          \* the indices of the tasks in the order they finished
    file,             \* what lies at 'binance_historical_data.csv'
    file_before,      \* what lay there before the run
    error             \* the exception that ended the run, "" when none did

vars ==
    <<pc, args, globals, params, symbols_list, historical_data, session, response,
      requests, tasks, outer, results, pbar, arrival, file, file_before, error>>

EmptyRecord == [k \in {} |-> ""]

symbols_url == [endpoint |-> "exchangeInfo"]

Init ==
    /\ pc = "parse_args"
    /\ args = EmptyRecord
    /\ globals = EmptyRecord
    /\ params = EmptyRecord
    /\ symbols_list = <<>>
    /\ historical_data = EmptyDataFrame
    /\ session = "none"
    /\ response = NoResponse
    /\ requests = <<>>
    /\ tasks = <<>>
    /\ outer = [state |-> "none"]
    /\ results = <<>>
    /\ pbar = [total |-> 0, n |-> 0]
    /\ arrival = <<>>
    /\ file_before \in {Absent, OldFile}
    /\ file = file_before
    /\ error = ""

\* ---------------------------------------------------- the command line

\* The command lines: each option given with a text, or left out.
CommandLines ==
    {EmptyRecord}
        \cup {[limit |-> l] : l \in LimitTexts}
        \cup {[tf |-> t] : t \in TfTexts}
        \cup {[limit |-> l, tf |-> t] : l \in LimitTexts, t \in TfTexts}

\* The namespace of a command line whose --limit text, if any, is an integer:
\* type=int converts the limit, type=str keeps the timeframe.
Namespace(argv) ==
    CASE "limit" \in DOMAIN argv /\ "tf" \in DOMAIN argv ->
            [limit |-> int(argv.limit).val, tf |-> argv.tf]
      [] "limit" \in DOMAIN argv /\ "tf" \notin DOMAIN argv ->
            [limit |-> int(argv.limit).val]
      [] "limit" \notin DOMAIN argv /\ "tf" \in DOMAIN argv ->
            [tf |-> argv.tf]
      [] OTHER -> EmptyRecord

\* parser.parse_args(): a --limit text that int() rejects ends the process
\* (argparse prints the usage and exits with status 2).
ParseArgs(argv) ==
    /\ pc = "parse_args"
    /\ IF "limit" \in DOMAIN argv /\ ~int(argv.limit).ok
       THEN /\ pc' = "aborted"
            /\ error' = "SystemExit"
            /\ args' = args
       ELSE /\ pc' = "read_limit"
            /\ error' = error
            /\ args' = Namespace(argv)
    /\ UNCHANGED <<globals, params, symbols_list, historical_data, session, response,
                   requests, tasks, outer, results, pbar, arrival, file, file_before>>

\* args.limit is not None: limit = args.limit
LimitOption ==
    /\ pc = "read_limit"
    /\ "limit" \in DOMAIN args
    /\ globals' = [limit |-> args.limit]
    /\ pc' = "read_tf"
    /\ UNCHANGED <<args, params, symbols_list, historical_data, session, response,
                   requests, tasks, outer, results, pbar, arrival, file, file_before,
                   error>>

\* args.limit is None: limit = int(input(...)), which raises ValueError when
\* the text typed is no integer.
LimitPrompt(typed) ==
    /\ pc = "read_limit"
    /\ "limit" \notin DOMAIN args
    /\ IF int(typed).ok
       THEN /\ globals' = [limit |-> int(typed).val]
            /\ pc' = "read_tf"
            /\ error' = error
       ELSE /\ globals' = globals
            /\ pc' = "aborted"
            /\ error' = "ValueError"
    /\ UNCHANGED <<args, params, symbols_list, historical_data, session, response,
                   requests, tasks, outer, results, pbar, arrival, file, file_before>>

\* args.tf is not None: tf = args.tf
TfOption ==
    /\ pc = "read_tf"
    /\ "tf" \in DOMAIN args
    /\ globals' = [limit |-> globals.limit, tf |-> args.tf]
    /\ pc' = "construct"
    /\ UNCHANGED <<args, params, symbols_list, historical_data, session, response,
                   requests, tasks, outer, results, pbar, arrival, file, file_before,
                   error>>

\* args.tf is None: tf = str(input(...)), the text typed.
TfPrompt(typed) ==
    /\ pc = "read_tf"
    /\ "tf" \notin DOMAIN args
    /\ globals' = [limit |-> globals.limit, tf |-> typed]
    /\ pc' = "construct"
    /\ UNCHANGED <<args, params, symbols_list, historical_data, session, response,
                   requests, tasks, outer, results, pbar, arrival, file, file_before,
                   error>>

\* BinanceHistoricalDataScraper(tf=tf, limit=limit)
Construct ==
    /\ pc = "construct"
    /\ symbols_list' = <<>>
    /\ params' = [tf |-> globals.tf, limit |-> globals.limit]
    /\ historical_data' = EmptyDataFrame
    /\ pc' = "scrape"
    /\ UNCHANGED <<args, globals, session, response, requests, tasks, outer, results,
                   pbar, arrival, file, file_before, error>>

\* ------------------------------------------------------------- scrape()

\* The GET that get_historical_data builds for a symbol.
endpoint(symbol) ==
    [endpoint |-> "klines", symbol |-> symbol, interval |-> params.tf,
     limit |-> params.limit]

\* asyncio.run(scraper.scrape()) up to the first await that suspends: the
\* session is opened and the GET of symbols_url is issued.
ScrapeStart ==
    /\ pc = "scrape"
    /\ session' = "open"
    /\ requests' = Append(requests, symbols_url)
    /\ pc' = "await_symbols"
    /\ UNCHANGED <<args, globals, params, symbols_list, historical_data, response,
                   tasks, outer, results, pbar, arrival, file, file_before, error>>

\* A lenient reading of the metadata response, response.get('symbols', []):
\* a response without "symbols" resolves to no symbol instead of raising.
ResolveSymbolsLenient(resp) ==
    IF resp.kind = "error" THEN Raise("ClientError")
    ELSE IF "symbols" \notin DOMAIN resp.body THEN Ok(<<>>)
    ELSE SymbolsComprehension(resp.body.symbols)

\* What scrape() does with the metadata response: the exception it raises, or
\* the symbols_list it resolves.
ResolveSymbols(resp) ==
    IF resp.kind = "error" THEN Raise("ClientError")
    ELSE IF "symbols" \notin DOMAIN resp.body THEN Raise("KeyError")
    ELSE SymbolsComprehension(resp.body.symbols)

\* A loop that stops one short: no task for the last symbol.
CreateTasksButLast(symbols) ==
    [i \in 1..(Len(symbols) - 1) |-> [symbol |-> symbols[i], state |-> "scheduled"]]

\* The tasks scrape() creates, one ensure_future per element of symbols_list in
\* its order; none has run yet.
CreateTasks(symbols) ==
    [i \in 1..Len(symbols) |-> [symbol |-> symbols[i], state |-> "scheduled"]]

\* The metadata response arrives and scrape() runs on to the await of the
\* gather: an exception leaves the `async with`, which closes the session;
\* otherwise symbols_list is resolved, the progress bar is opened and the tasks
\* are created. asyncio.gather() of no task is a future already done.
SymbolsResponse(resp) ==
    /\ pc = "await_symbols"
    /\ response' = resp
    /\ LET resolved == ResolveSymbols(resp)
       IN  IF ~resolved.ok
           THEN /\ error' = resolved.exc
                /\ session' = "closed"
                /\ pc' = "raising"
                /\ UNCHANGED <<symbols_list, tasks, outer, pbar>>
           ELSE /\ symbols_list' = resolved.val
                /\ pbar' = [total |-> Len(resolved.val), n |-> 0]
                /\ tasks' = CreateTasks(resolved.val)
                /\ outer' = [state |-> IF resolved.val = <<>> THEN "result" ELSE "pending"]
                /\ pc' = "gather"
                /\ UNCHANGED <<error, session>>
    /\ UNCHANGED <<args, globals, params, historical_data, requests, results, arrival,
                   file, file_before>>

\* Fetches awaited one after the other: a task starts only when every task
\* before it has finished.
MayStartSerialized(i) ==
    /\ tasks[i].state = "scheduled"
    /\ \A j \in 1..(i - 1) : tasks[j].state \in {"done", "raised"}

\* Whether the event loop may run the first step of task i: the loop runs the
\* steps ensure_future scheduled in the order they were scheduled, each up to
\* its first suspension, before it looks at the network again.
MayStart(i) ==
    /\ tasks[i].state = "scheduled"
    /\ \A j \in 1..(i - 1) : tasks[j].state # "scheduled"

\* The first step of get_historical_data: the endpoint is built and its GET is
\* issued; the task awaits the response.
TaskStart(i) ==
    /\ pc = "gather"
    /\ MayStart(i)
    /\ requests' = Append(requests, endpoint(tasks[i].symbol))
    /\ tasks' = [tasks EXCEPT ![i] = [symbol |-> tasks[i].symbol, state |-> "awaiting"]]
    /\ UNCHANGED <<pc, args, globals, params, symbols_list, historical_data, session,
                   response, outer, results, pbar, arrival, file, file_before, error>>

\* What get_historical_data makes of the response for `symbol`: the exception it
\* raises (in fetch, or in the DataFrame constructor) or the frame it returns.
symbol_df(symbol, resp) ==
    IF resp.kind = "error" THEN Raise("ClientError")
    ELSE LET df == DataFrame(resp, KlineColumns)
         IN  IF ~df.ok THEN df ELSE Ok(SetColumn(df.val, "Symbol", symbol))

\* The task as it ends on the response.
Finished(task, resp) ==
    LET df == symbol_df(task.symbol, resp)
    IN  IF df.ok
        THEN [symbol |-> task.symbol, state |-> "done", response |-> resp,
              result |-> df.val]
        ELSE [symbol |-> task.symbol, state |-> "raised", response |-> resp,
              exception |-> df.exc]

\* The gather's done callback, without return_exceptions: the first exception
\* of a child becomes the exception of the outer future at once; the outer
\* future gets its result when the last child is done.
\* A bulk wait that resolves when the task created last is done, taking it for
\* the last one to finish.
GatherCallbackOfLastTask(fut, ts, i) ==
    IF fut.state # "pending" THEN fut
    ELSE IF ts[i].state = "raised"
         THEN [state |-> "exception", exception |-> ts[i].exception]
    ELSE IF i = Len(ts) /\ \A j \in 1..Len(ts) : ts[j].state = "done"
         THEN [state |-> "result"]
    ELSE fut

\* A bulk wait that resolves with the first task that is done, as
\* asyncio.wait(..., return_when=FIRST_COMPLETED) does.
GatherCallbackFirstCompleted(fut, ts, i) ==
    IF fut.state # "pending" THEN fut
    ELSE IF ts[i].state = "raised"
         THEN [state |-> "exception", exception |-> ts[i].exception]
    ELSE [state |-> "result"]

GatherCallback(fut, ts, i) ==
    IF fut.state # "pending" THEN fut
    ELSE IF ts[i].state = "raised"
         THEN [state |-> "exception", exception |-> ts[i].exception]
    ELSE IF \A j \in 1..Len(ts) : ts[j].state = "done" THEN [state |-> "result"]
    ELSE fut

\* A task that counts before it builds its frame: pbar.update(1) right after
\* the await, so that a fetch that raises is counted too.
DeliverCountingFailures(i, resp) ==
    /\ pc = "gather"
    /\ tasks[i].state = "awaiting"
    /\ \A j \in 1..Len(tasks) : tasks[j].state # "scheduled"
    /\ LET ts == [tasks EXCEPT ![i] = Finished(tasks[i], resp)]
       IN  /\ tasks' = ts
           /\ pbar' = [pbar EXCEPT !.n = @ + 1]
           /\ outer' = GatherCallback(outer, ts, i)
    /\ arrival' = Append(arrival, i)
    /\ UNCHANGED <<pc, args, globals, params, symbols_list, historical_data, session,
                   response, requests, results, file, file_before, error>>

\* A task that appends its frame to self.historical_data itself, before it
\* returns.
DeliverIntoSharedFrame(i, resp) ==
    /\ pc = "gather"
    /\ tasks[i].state = "awaiting"
    /\ \A j \in 1..Len(tasks) : tasks[j].state # "scheduled"
    /\ LET ts == [tasks EXCEPT ![i] = Finished(tasks[i], resp)]
       IN  /\ tasks' = ts
           /\ pbar' = IF ts[i].state = "done" THEN [pbar EXCEPT !.n = @ + 1] ELSE pbar
           /\ historical_data' = IF ts[i].state = "done"
                                 THEN concat(historical_data, ts[i].result)
                                 ELSE historical_data
           /\ outer' = GatherCallback(outer, ts, i)
    /\ arrival' = Append(arrival, i)
    /\ UNCHANGED <<pc, args, globals, params, symbols_list, session,
                   response, requests, results, file, file_before, error>>

\* The response for task i arrives and the task runs to its end: it returns
\* the frame tagged with the symbol after pbar.update(1), or raises. The loop
\* polls the network only when no scheduled first step is left to run, and
\* goes on delivering until scrape() itself is resumed by the gather.
Deliver(i, resp) ==
    /\ pc = "gather"
    /\ tasks[i].state = "awaiting"
    /\ \A j \in 1..Len(tasks) : tasks[j].state # "scheduled"
    /\ LET ts == [tasks EXCEPT ![i] = Finished(tasks[i], resp)]
       IN  /\ tasks' = ts
           /\ pbar' = IF ts[i].state = "done" THEN [pbar EXCEPT !.n = @ + 1] ELSE pbar
           /\ outer' = GatherCallback(outer, ts, i)
    /\ arrival' = Append(arrival, i)
    /\ UNCHANGED <<pc, args, globals, params, symbols_list, historical_data, session,
                   response, requests, results, file, file_before, error>>

\* The results in the order the tasks finished (asyncio.as_completed).
ResultsAsCompleted(ts, order) == [k \in 1..Len(order) |-> ts[order[k]].result]

\* The list the gather returns: the results of the tasks in the order the
\* tasks were passed, whatever the order they finished in.
GatherResults(ts, order) == [i \in 1..Len(ts) |-> ts[i].result]

\* `await asyncio.gather(*tasks)` returns: the progress bar and the session are
\* closed as the two `with` blocks are left.
GatherReturn ==
    /\ pc = "gather"
    /\ outer.state = "result"
    /\ results' = GatherResults(tasks, arrival)
    /\ session' = "closed"
    /\ pc' = "concatenate"
    /\ UNCHANGED <<args, globals, params, symbols_list, historical_data, response,
                   requests, tasks, outer, pbar, arrival, file, file_before, error>>

\* `await asyncio.gather(*tasks)` raises the first exception of a task: it
\* leaves both `with` blocks, closing the session, and scrape().
GatherRaise ==
    /\ pc = "gather"
    /\ outer.state = "exception"
    /\ error' = outer.exception
    /\ session' = "closed"
    /\ pc' = "raising"
    /\ UNCHANGED <<args, globals, params, symbols_list, historical_data, response,
                   requests, tasks, outer, results, pbar, arrival, file, file_before>>

\* The loop `for result in results: historical_data = pd.concat(...)`.
RECURSIVE ConcatAll(_, _)
ConcatAll(df, rs) ==
    IF rs = <<>> THEN df ELSE ConcatAll(concat(df, Head(rs)), Tail(rs))

\* A loop that also writes the file as it concatenates.
ConcatenateAndWrite ==
    /\ pc = "concatenate"
    /\ historical_data' = ConcatAll(historical_data, results)
    /\ file' = to_csv(ConcatAll(historical_data, results))
    /\ pc' = "normalise"
    /\ UNCHANGED <<args, globals, params, symbols_list, session, response, requests,
                   tasks, outer, results, pbar, arrival, file_before, error>>

Concatenate ==
    /\ pc = "concatenate"
    /\ historical_data' = ConcatAll(historical_data, results)
    /\ pc' = "normalise"
    /\ UNCHANGED <<args, globals, params, symbols_list, session, response, requests,
                   tasks, outer, results, pbar, arrival, file, file_before, error>>

\* A normalisation that is skipped when the merged table has no column.
NormalisedIfAny(df) ==
    IF df.columns = <<>> THEN Ok(df)
    ELSE LET a == ConvertColumn(df, "Open time")
             b == IF a.ok THEN ConvertColumn(a.val, "Close time") ELSE a
             c == IF b.ok THEN set_index(b.val, "Open time") ELSE b
         IN  IF c.ok THEN drop(c.val, DroppedColumns) ELSE c

\* The two timestamp conversions, set_index and drop, in the order of the
\* code; the first that raises ends them.
Normalised(df) ==
    LET a == ConvertColumn(df, "Open time")
        b == IF a.ok THEN ConvertColumn(a.val, "Close time") ELSE a
        c == IF b.ok THEN set_index(b.val, "Open time") ELSE b
    IN  IF c.ok THEN drop(c.val, DroppedColumns) ELSE c

Normalise ==
    /\ pc = "normalise"
    /\ LET df == Normalised(historical_data)
       IN  IF df.ok
           THEN /\ historical_data' = df.val
                /\ pc' = "to_csv"
                /\ error' = error
           ELSE /\ historical_data' = historical_data
                /\ pc' = "raising"
                /\ error' = df.exc
    /\ UNCHANGED <<args, globals, params, symbols_list, session, response, requests,
                   tasks, outer, results, pbar, arrival, file, file_before>>

\* self.historical_data.to_csv('binance_historical_data.csv'), the last
\* statement of scrape().
WriteCsv ==
    /\ pc = "to_csv"
    /\ file' = to_csv(historical_data)
    /\ pc' = "done"
    /\ UNCHANGED <<args, globals, params, symbols_list, historical_data, session,
                   response, requests, tasks, outer, results, pbar, arrival,
                   file_before, error>>

\* A task still running when asyncio.run ends is cancelled.
Cancelled(task) ==
    IF task.state \in {"scheduled", "awaiting"}
    THEN [symbol |-> task.symbol, state |-> "cancelled"]
    ELSE task

\* asyncio.run() when scrape() has raised: it cancels the tasks still running,
\* closes the loop and lets the exception end the process.
RunCleanup ==
    /\ pc = "raising"
    /\ tasks' = [i \in 1..Len(tasks) |-> Cancelled(tasks[i])]
    /\ pc' = "aborted"
    /\ UNCHANGED <<args, globals, params, symbols_list, historical_data, session,
                   response, requests, outer, results, pbar, arrival, file, file_before,
                   error>>

Next ==
    \/ \E argv \in CommandLines : ParseArgs(argv)
    \/ LimitOption
    \/ \E typed \in LimitTexts : LimitPrompt(typed)
    \/ TfOption
    \/ \E typed \in TfTexts : TfPrompt(typed)
    \/ Construct
    \/ ScrapeStart
    \/ \E resp \in MetaResponses : SymbolsResponse(resp)
    \/ \E i \in 1..Len(tasks) : TaskStart(i)
    \/ \E i \in 1..Len(tasks), resp \in CandleResponses : Deliver(i, resp)
    \/ GatherReturn
    \/ GatherRaise
    \/ Concatenate
    \/ Normalise
    \/ WriteCsv
    \/ RunCleanup

Spec == Init /\ [][Next]_vars

\* The steps the event loop runs by itself once asyncio.run has been called:
\* a coroutine that is ready is resumed, an exception is propagated.
Scheduled ==
    \/ ScrapeStart
    \/ \E i \in 1..Len(tasks) : TaskStart(i)
    \/ GatherReturn
    \/ GatherRaise
    \/ WriteCsv
    \/ RunCleanup

\* Lines 74 to 84 are synchronous: once `await asyncio.gather` has returned,
\* scrape() runs through them without yielding.  Concatenate and Normalise have
\* no guard but their position, so a step that leaves one of these positions
\* is a step of Concatenate or of Normalise.
Assembly ==
    /\ pc \in {"concatenate", "normalise"}
    /\ pc' \in {"normalise", "to_csv", "raising"}
    /\ pc' # pc

\* The steps that wait for the network: the await of fetch ends with a decoded
\* response or with an exception.
Responded ==
    \/ \E resp \in MetaResponses : SymbolsResponse(resp)
    \/ \E i \in 1..Len(tasks), resp \in CandleResponses : Deliver(i, resp)

\* The runs in which the event loop keeps running what is ready and every
\* request issued is answered or fails.  Nothing is assumed of the user at the
\* prompts.
LiveSpec == Spec /\ WF_vars(Scheduled) /\ WF_pc(Assembly) /\ WF_vars(Responded)

\* ------------------------------------------------- what the claims read

\* The candle requests issued so far.
KlineRequests == SelectSeq(requests, LAMBDA r : r.endpoint = "klines")

\* The run is over: the file is written, or an exception ended the process.
RunOver == pc \in {"done", "aborted"}

\* An exception has left, or is leaving, the script.
Aborting == pc \in {"raising", "aborted"}

\* The series a finished task received (an error object carries no candle).
SeriesOf(task) == IF task.response.type = "array" THEN task.response.array ELSE <<>>

\* The field of line p of the written file under the header `label`.
CsvField(p, label) == file.lines[p][IndexOf(file.header, label)]

\* The index of the task that fetched `symbol`.
TaskOf(symbol) == CHOOSE i \in 1..Len(tasks) : tasks[i].symbol = symbol

\* s ends with USDT: it is some prefix followed by USDT.
EndsWithUSDT(s) == \E k \in 0..Len(s) : s = SubSeq(s, 1, k) \o USDT

RECURSIVE TotalCandles(_)
TotalCandles(ts) ==
    IF ts = <<>> THEN 0 ELSE Len(SeriesOf(Head(ts))) + TotalCandles(Tail(ts))

\* ------------------------------------------------------------------- C1

\* C1 (as claimed): the failure of one symbol's fetch never aborts the batch:
\* no run in which a fetch task raised ends, or is ending, on an exception.
C1_FailureIsolation ==
    (\E i \in 1..Len(tasks) : tasks[i].state = "raised") => ~Aborting

\* ------------------------------------------------------------------- C2

\* Line p of the written file is candle k of task i, tagged with i's symbol.
IsLineOf(p, i, k) ==
    LET candle == SeriesOf(tasks[i])[k]
    IN  /\ CsvField(p, "Symbol") = tasks[i].symbol
        /\ CsvField(p, "Open time") = to_datetime(candle[1])
        /\ CsvField(p, "Open") = candle[2]
        /\ CsvField(p, "High") = candle[3]
        /\ CsvField(p, "Low") = candle[4]
        /\ CsvField(p, "Close") = candle[5]
        /\ CsvField(p, "Volume") = candle[6]

\* C2: when the file is written, it has as many lines as the fetches returned
\* candles, every returned candle is exactly one line tagged with the symbol of
\* the task that fetched it, and every line is such a candle.
C2_MergeCardinality ==
    pc = "done" =>
        /\ Len(file.lines) = TotalCandles(tasks)
        /\ \A i \in 1..Len(tasks) : \A k \in 1..Len(SeriesOf(tasks[i])) :
              Cardinality({p \in 1..Len(file.lines) : IsLineOf(p, i, k)}) = 1
        /\ \A p \in 1..Len(file.lines) :
              \E i \in 1..Len(tasks) : \E k \in 1..Len(SeriesOf(tasks[i])) :
                  IsLineOf(p, i, k)

\* Two symbols, one candle for the first and two for the second, are written.
C2_Witness ==
    /\ pc = "done"
    /\ Len(tasks) = 2
    /\ Len(SeriesOf(tasks[1])) = 1
    /\ Len(SeriesOf(tasks[2])) = 2
    /\ Len(file.lines) = 3

\* ------------------------------------------------------------------- C3

\* The parameters read are outside the documented domains.
InvalidParameters ==
    /\ "tf" \in DOMAIN globals
    /\ \/ globals.tf \notin AllowedTimeframes
       \/ globals.limit \notin MinLimit..MaxLimit

\* C3 (as claimed): with a timeframe outside the enumerated set or a limit
\* outside [1, 1000], no request is ever issued to either endpoint.
C3_ValidationPrecedesNetwork == InvalidParameters => requests = <<>>

\* ------------------------------------------------------------------- C4

\* The metadata response is JSON without one of the fields the exchange's
\* schema promises: "symbols", or "symbol" or "status" of some entry.
LacksExpectedFields(resp) ==
    /\ resp.kind = "json"
    /\ \/ "symbols" \notin DOMAIN resp.body
       \/ \E i \in 1..Len(resp.body.symbols) :
             \/ "symbol" \notin DOMAIN resp.body.symbols[i]
             \/ "status" \notin DOMAIN resp.body.symbols[i]

\* The metadata response is JSON without a field the symbol filter reads:
\* "symbols", the "symbol" of some entry, or the "status" of an entry whose
\* identifier ends with USDT.
LacksFieldRead(resp) ==
    /\ resp.kind = "json"
    /\ \/ "symbols" \notin DOMAIN resp.body
       \/ \E i \in 1..Len(resp.body.symbols) :
             LET entry == resp.body.symbols[i]
             IN  \/ "symbol" \notin DOMAIN entry
                 \/ EndsWithUSDT(entry.symbol) /\ "status" \notin DOMAIN entry

Qualifies(entry) ==
    /\ "symbol" \in DOMAIN entry
    /\ "status" \in DOMAIN entry
    /\ EndsWithUSDT(entry.symbol)
    /\ entry.status = "TRADING"

\* The tasks have been created: symbols_list is resolved.
Resolved == outer.state # "none"

\* C5: once resolved, symbols_list is the identifiers of exactly the entries of
\* the response that end with USDT and are TRADING, in the response's order;
\* and every candle request ever issued is for such an entry.
C5_SymbolFilter ==
    /\ Resolved =>
          LET data == response.body.symbols
              passing == {i \in 1..Len(data) : Qualifies(data[i])}
          IN  /\ Len(symbols_list) = Cardinality(passing)
              /\ \E f \in [1..Len(symbols_list) -> passing] :
                    /\ \A j, k \in 1..Len(symbols_list) : j < k => f[j] < f[k]
                    /\ \A j \in 1..Len(symbols_list) :
                          symbols_list[j] = data[f[j]].symbol
    /\ \A r \in 1..Len(KlineRequests) :
          /\ response.kind = "json"
          /\ "symbols" \in DOMAIN response.body
          /\ \E i \in 1..Len(response.body.symbols) :
                /\ Qualifies(response.body.symbols[i])
                /\ response.body.symbols[i].symbol = KlineRequests[r].symbol

\* A response of an entry that merely starts with USDT and one that passes: only
\* the second is resolved and fetched.
C5_Witness ==
    /\ Resolved
    /\ Len(response.body.symbols) = 2
    /\ response.body.symbols[1] = [symbol |-> USDTTRY, status |-> "TRADING"]
    /\ symbols_list = <<ETHUSDT>>
    /\ Len(KlineRequests) = 1

\* ------------------------------------------------------------------- C6

\* C6 (as claimed): the written header is the open time, then Symbol, Open,
\* High, Low, Close, Volume.
C6_SymbolColumnFirst ==
    pc = "done" =>
        file.header = <<"Open time", "Symbol", "Open", "High", "Low", "Close", "Volume">>

\* C6 (amended): the written table has the open time as its first column (the
\* index), followed by Open, High, Low, Close, Volume, Symbol in exactly that
\* order; every line has these seven fields and no auxiliary column remains.
C6_ColumnLayout ==
    pc = "done" =>
        /\ file.header = <<"Open time", "Open", "High", "Low", "Close", "Volume", "Symbol">>
        /\ \A p \in 1..Len(file.lines) : Len(file.lines[p]) = 7
        /\ Range(file.header) \cap Range(DroppedColumns) = {}

\* A file written with at least one candle.
C6_Witness == pc = "done" /\ Len(file.lines) >= 1

\* ------------------------------------------------------------------- C7

\* The position at which task i finished.
ArrivalRank(i) == IndexOf(arrival, i)

\* C7 (as claimed): in the written file the rows of a task that finished
\* earlier precede the rows of a task that finished later.
C7_MergeFollowsArrival ==
    pc = "done" =>
        \A p, q \in 1..Len(file.lines) :
            p < q => ArrivalRank(TaskOf(CsvField(p, "Symbol")))
                        <= ArrivalRank(TaskOf(CsvField(q, "Symbol")))

\* C7 (amended): in the written file the rows of a symbol that comes earlier in
\* symbols_list (whose task was created earlier) precede the rows of a symbol
\* that comes later, whatever the order in which the tasks finished.
C7_MergeFollowsCreation ==
    pc = "done" =>
        \A p, q \in 1..Len(file.lines) :
            p < q => IndexOf(symbols_list, CsvField(p, "Symbol"))
                        <= IndexOf(symbols_list, CsvField(q, "Symbol"))

\* A file written from two symbols whose second task finished first, both with
\* candles.
C7_Witness ==
    /\ pc = "done"
    /\ arrival = <<2, 1>>
    /\ \A i \in 1..2 : Len(SeriesOf(tasks[i])) >= 1

\* ------------------------------------------------------------------- C8

\* C8: no symbol is requested twice; every candle request is for a symbol of
\* symbols_list, with the timeframe and the limit of params; and when the run
\* is over, each symbol of symbols_list was requested exactly once.
C8_OneFetchPerSymbol ==
    /\ \A a, b \in 1..Len(KlineRequests) :
          a # b => KlineRequests[a].symbol # KlineRequests[b].symbol
    /\ \A a \in 1..Len(KlineRequests) :
          /\ KlineRequests[a].symbol \in Range(symbols_list)
          /\ KlineRequests[a].interval = params.tf
          /\ KlineRequests[a].limit = params.limit
    /\ RunOver =>
          \A j \in 1..Len(symbols_list) :
              Cardinality({a \in 1..Len(KlineRequests) :
                              KlineRequests[a].symbol = symbols_list[j]}) = 1

\* A run of two symbols that a failed fetch aborted: both were requested.
C8_Witness ==
    /\ pc = "aborted"
    /\ Len(symbols_list) = 2
    /\ Len(KlineRequests) = 2
    /\ \E i \in 1..2 : tasks[i].state = "raised"

\* ------------------------------------------------------------------- C9

\* C9: while the gather is awaited, the request of the next task can be issued
\* although every task before it still awaits its response; every request has
\* been issued by the time the first response is delivered; and the response
\* of any task in flight can be the next one delivered.
C9_FetchesNotSerialized ==
    pc = "gather" =>
        /\ \A i \in 1..Len(tasks) :
              (/\ tasks[i].state = "scheduled"
               /\ \A j \in 1..(i - 1) : tasks[j].state = "awaiting")
                  => ENABLED TaskStart(i)
        /\ arrival # <<>> => Len(KlineRequests) = Len(tasks)
        /\ (\A j \in 1..Len(tasks) : tasks[j].state # "scheduled") =>
              \A i \in 1..Len(tasks) :
                  tasks[i].state = "awaiting" =>
                      ENABLED (\E resp \in CandleResponses : Deliver(i, resp))

\* Both requests of a catalog of two symbols are in flight, no response yet.
C9_Witness ==
    /\ pc = "gather"
    /\ Len(tasks) = 2
    /\ \A i \in 1..2 : tasks[i].state = "awaiting"
    /\ arrival = <<>>
    /\ Len(KlineRequests) = 2

\* ------------------------------------------------------------------ C10

\* The requests to the metadata endpoint issued so far.
MetaRequests == SelectSeq(requests, LAMBDA r : r.endpoint = "exchangeInfo")

TasksIn(states) == {i \in 1..Len(tasks) : tasks[i].state \in states}

\* C11 (as claimed): the count of the progress bar is the number of fetches
\* that have completed so far, whether they returned or raised.
C11_ProgressCountsCompleted == pbar.n = Cardinality(TasksIn({"done", "raised"}))

\* C11 (amended): the count of the progress bar is the number of fetches that
\* have returned their frame so far (a fetch that raised is not counted); it
\* never exceeds the total, which is the size of symbols_list; and it is the
\* total once the bulk wait has returned.
C11_ProgressAccounting ==
    /\ pbar.n = Cardinality(TasksIn({"done"}))
    /\ pbar.n <= pbar.total
    /\ pbar.total = Len(symbols_list)
    /\ pc \in {"concatenate", "normalise", "to_csv", "done"} => pbar.n = pbar.total

\* Of two fetches one has raised and the other has returned: the count is 1.
C11_Witness ==
    /\ Len(tasks) = 2
    /\ tasks[1].state = "raised"
    /\ tasks[2].state = "done"
    /\ pbar = [total |-> 2, n |-> 1]

\* ------------------------------------------------------------------ C12

\* C12: with a limit L that the documentation allows, the frame of every fetch
\* that returned has at most L rows, and the file written has at most
\* L * Len(symbols_list) lines, whatever the candle endpoint returned.
C12_SeriesWithinLimit ==
    ("limit" \in DOMAIN params /\ params.limit \in MinLimit..MaxLimit) =>
        /\ \A i \in TasksIn({"done"}) : Len(tasks[i].result.rows) <= params.limit
        /\ pc = "done" => Len(file.lines) <= params.limit * Len(symbols_list)

\* A fetch issued with limit 1 has returned a frame of two rows.
C12_Witness ==
    /\ "limit" \in DOMAIN params
    /\ params.limit = 1
    /\ \E i \in TasksIn({"done"}) :
          /\ KlineRequests[i].limit = 1
          /\ Len(tasks[i].result.rows) = 2

\* ------------------------------------------------------------------ C13

\* C13: if every request issued is answered or fails, a run that has entered
\* scrape() ends: either the file is written (pc = "done") or the run aborts
\* on the exception that nothing handles (pc = "aborted").
C13_Termination == (pc = "scrape") ~> RunOver

\* A run with two fetches has gone through the fan-out and the assembly and
\* has ended.
C13_Witness ==
    /\ RunOver
    /\ Len(tasks) = 2
    /\ Len(arrival) >= 1

\* ------------------------------------------------------------------ C14

\* The run is past `await asyncio.gather`: it stands at the concatenation or
\* after it.
PastBarrier == pc \in {"concatenate", "normalise", "to_csv", "done"}

\* C14: the bulk wait has its result, the run is at or past the concatenation,
\* the merged table has a row or a column, or the file has been written, only
\* when every fetch task of the run is done: none is still scheduled or
\* awaiting its response.
C14_FanInBarrier ==
    (\/ outer.state = "result"
     \/ PastBarrier
     \/ historical_data # EmptyDataFrame
     \/ file # file_before)
    => TasksIn({"done"}) = 1..Len(tasks)

\* Two fetches are done and their rows have been merged.
C14_Witness ==
    /\ pc = "normalise"
    /\ Len(tasks) = 2
    /\ Len(historical_data.rows) >= 2
    /\ TasksIn({"done"}) = {1, 2}

\* ------------------------------------------------------------------ C15

\* C15: a step of a fetch task during the fan-out (the run is at the bulk wait
\* before and after it) leaves symbols_list, params and historical_data as
\* they were, changes the entry of one task at most, and leaves untouched
\* the entry of a task that has returned or raised: what a task has returned
\* is not changed by the steps of the others.
C15_TasksShareNoState ==
    [][(pc = "gather" /\ pc' = "gather") =>
          /\ symbols_list' = symbols_list
          /\ params' = params
          /\ historical_data' = historical_data
          /\ Len(tasks') = Len(tasks)
          /\ \A i, j \in 1..Len(tasks) :
                (i # j /\ tasks'[i] # tasks[i]) => tasks'[j] = tasks[j]
          /\ \A i \in TasksIn({"done", "raised"}) : tasks'[i] = tasks[i]
          /\ \A i \in 1..Len(tasks) : tasks'[i].symbol = tasks[i].symbol]_vars

\* The fan-out is in progress: one fetch has returned its frame while the
\* other still awaits its response.
C15_Witness ==
    /\ pc = "gather"
    /\ Len(tasks) = 2
    /\ tasks[1].state = "done"
    /\ Len(tasks[1].result.rows) >= 1
    /\ tasks[2].state = "awaiting"

\* ------------------------------------------------------------------ C16

\* The lines that the candles answered for the i-th symbol of symbols_list
\* make: one per candle, in the order of the answer, the open time as an
\* instant, the five values kept and the symbol.
BlockOf(i) ==
    LET series == SeriesOf(tasks[i])
    IN  [k \in 1..Len(series) |->
            <<to_datetime(series[k][1]), series[k][2], series[k][3], series[k][4],
              series[k][5], series[k][6], symbols_list[i]>>]

\* The blocks of the symbols from the i-th on, one after the other.
RECURSIVE BlocksFrom(_)
BlocksFrom(i) ==
    IF i > Len(symbols_list) THEN <<>> ELSE BlockOf(i) \o BlocksFrom(i + 1)

\* C16: the lines of the written file are a function of symbols_list and of
\* the response each symbol's request got, and of nothing else: they are the
\* block of the first symbol, then the block of the second, and so on, in the
\* order of symbols_list.  The order in which the fetches finished does not
\* occur in it, so two runs with the same responses write the same lines.
C16_MergeIsDeterministic ==
    pc = "done" =>
        /\ \A i \in 1..Len(symbols_list) : tasks[i].symbol = symbols_list[i]
        /\ file.header = <<"Open time", "Open", "High", "Low", "Close", "Volume", "Symbol">>
        /\ file.lines = BlocksFrom(1)

\* A file of three lines written in a run whose second fetch, of one candle,
\* finished before the first, of two.
C16_Witness ==
    /\ pc = "done"
    /\ arrival = <<2, 1>>
    /\ Len(SeriesOf(tasks[1])) = 2
    /\ Len(SeriesOf(tasks[2])) = 1
    /\ Len(file.lines) = 3

\* ------------------------------------------------------------------ C17

\* C17: when the session is closed no fetch task is in flight (awaiting the
\* response to the request it issued on the session) and none has yet to issue
\* its request on it (scheduled), in the runs where the bulk wait raises as in
\* the others.
C17_SessionOutlivesFetches ==
    session = "closed" => TasksIn({"scheduled", "awaiting"}) = {}

\* The bulk wait has raised on the failure of the first fetch and the session
\* has been closed on the way out of `async with`, while the second fetch
\* still awaits its response.
C17_Witness ==
    /\ pc = "raising"
    /\ session = "closed"
    /\ Len(tasks) = 2
    /\ tasks[1].state = "raised"
    /\ tasks[2].state = "awaiting"

\* ------------------------------------------------------------------ C18

\* The metadata response has been read by the filter to its end (it has every
\* field the filter reads) and none of its entries passes.
NoEntryPasses ==
    /\ response.kind = "json"
    /\ ~LacksFieldRead(response)
    /\ \A i \in 1..Len(response.body.symbols) : ~Qualifies(response.body.symbols[i])

\* C18: when no entry of the metadata response passes the filter, no candle
\* request is issued and no task is created, the merged table never has an
\* 'Open time' column, the run never reaches the CSV write and the file stays
\* as it was before the run; and when the run aborts, it does so on the
\* KeyError of the assembly, after the bulk wait has returned no result.
C18_EmptyCatalogAborts ==
    NoEntryPasses =>
        /\ symbols_list = <<>>
        /\ KlineRequests = <<>>
        /\ tasks = <<>>
        /\ "Open time" \notin Range(historical_data.columns)
        /\ pc \notin {"to_csv", "done"}
        /\ file = file_before
        /\ Aborting => /\ error = "KeyError"
                       /\ outer.state = "result"
                       /\ results = <<>>

\* A run has aborted on a metadata response of two entries, none of which
\* passes the filter, with a file from before the run still in place.
C18_Witness ==
    /\ pc = "aborted"
    /\ NoEntryPasses
    /\ Len(response.body.symbols) = 2
    /\ error = "KeyError"
    /\ file = OldFile

====
